---- MODULE Spec2Model ----
(***************************************************************************)
(* ca_mera: the Game Boy Camera image pipeline (src/src/gbcProcessor.js),  *)
(* the palette registry (src/src/palettes.js) and the photo gallery        *)
(* (src/src/gallery.js).                                                   *)
(*                                                                         *)
(* An ImageData is a record [width, height, data]: data[y + 1][x + 1] is   *)
(* the pixel <<R, G, B, A>> of column x, row y, whose four bytes the code  *)
(* keeps at data[idx] .. data[idx + 3], idx = (y * width + x) * 4.  The    *)
(* rows are kept as separate sequences: data.length is four times the sum  *)
(* of their lengths.                                                       *)
(*                                                                         *)
(* A JavaScript number that is not an integer (contrast, edgeStrength,     *)
(* the luminance weights, the Bayer thresholds, the spread) is written as  *)
(* a rational <<num, den>> with den > 0 and stands for the double nearest  *)
(* to it, as the literal 1.2 does in the code.  The stages' arithmetic is  *)
(* the doubles': where the exact value of an expression decides the byte   *)
(* that is stored it is used, and where it lies halfway between two bytes  *)
(* the expression is evaluated operation by operation in IEEE-754 double   *)
(* arithmetic (round to nearest, ties to even) and the result is stored.   *)
(***************************************************************************)
EXTENDS Integers, Naturals, Sequences, FiniteSets, TLC

\* An observer's record of one earlier processFrame call (its arguments, the
\* image it returned, and whether a call with other arguments was made since).
\* No operation of the program reads it.
VARIABLE memo

\* ------------------------------------------------------------- numbers

Min(a, b) == IF a < b THEN a ELSE b

Max(a, b) == IF a > b THEN a ELSE b

\* A store that rounds as the typed array does and does not clamp (a plain
\* Array or a Float32Array under the same code).
ToNumberUnclamped(num, den) ==
    LET q == num \div den
        r == num % den
    IN  IF 2 * r < den THEN q
        ELSE IF 2 * r > den THEN q + 1
        ELSE IF q % 2 = 0 THEN q ELSE q + 1

\* The store of the number num/den (den > 0) into a Uint8ClampedArray cell:
\* clamped to 0..255 and rounded to the nearest integer, ties to even.
ToUint8Clamped(num, den) ==
    IF num <= 0 THEN 0
    ELSE IF num >= 255 * den THEN 255
    ELSE LET q == num \div den
             r == num % den
         IN  IF 2 * r < den THEN q
             ELSE IF 2 * r > den THEN q + 1
             ELSE IF q % 2 = 0 THEN q ELSE q + 1

\* ------------------------------------------- JavaScript Number arithmetic
\* The pipeline computes in IEEE-754 doubles.  A double is held here as
\* [neg, m, e], the number (-1)^neg * m * 2^e, whose significand m is a natural
\* number of at most 53 bits written as a little-endian sequence of limbs of
\* LimbBits bits (<< >> is zero), so that no intermediate exceeds 32 bits.

LimbBits == 15

Base == 2 ^ LimbBits

SignificandBits == 53

RECURSIVE BNorm(_)
BNorm(a) ==
    IF a = << >> THEN << >>
    ELSE IF a[Len(a)] = 0 THEN BNorm(SubSeq(a, 1, Len(a) - 1))
    ELSE a

RECURSIVE BFromInt(_)
BFromInt(n) ==
    IF n = 0 THEN << >> ELSE << n % Base >> \o BFromInt(n \div Base)

RECURSIVE BToInt(_)
BToInt(a) ==
    IF a = << >> THEN 0 ELSE a[1] + Base * BToInt(Tail(a))

BLimb(a, i) == IF i <= Len(a) THEN a[i] ELSE 0

RECURSIVE BAddFrom(_, _, _, _)
BAddFrom(a, b, i, carry) ==
    IF i > Len(a) /\ i > Len(b)
    THEN IF carry = 0 THEN << >> ELSE << carry >>
    ELSE LET t == BLimb(a, i) + BLimb(b, i) + carry
         IN  << t % Base >> \o BAddFrom(a, b, i + 1, t \div Base)

BAdd(a, b) == BAddFrom(a, b, 1, 0)

RECURSIVE BSubFrom(_, _, _, _)
BSubFrom(a, b, i, borrow) ==
    IF i > Len(a) THEN << >>
    ELSE LET t == a[i] - BLimb(b, i) - borrow
         IN  IF t < 0 THEN << t + Base >> \o BSubFrom(a, b, i + 1, 1)
             ELSE << t >> \o BSubFrom(a, b, i + 1, 0)

\* a - b for a >= b.
BSub(a, b) == BNorm(BSubFrom(a, b, 1, 0))

RECURSIVE BCmpAt(_, _, _)
BCmpAt(a, b, i) ==
    IF i = 0 THEN 0
    ELSE IF a[i] < b[i] THEN -1
    ELSE IF a[i] > b[i] THEN 1
    ELSE BCmpAt(a, b, i - 1)

\* -1, 0 or 1 as a < b, a = b or a > b.
BCmp(a, b) ==
    IF Len(a) < Len(b) THEN -1
    ELSE IF Len(a) > Len(b) THEN 1
    ELSE BCmpAt(a, b, Len(a))

RECURSIVE BMulSmallFrom(_, _, _, _)
BMulSmallFrom(a, d, i, carry) ==
    IF i > Len(a)
    THEN IF carry = 0 THEN << >> ELSE << carry >>
    ELSE LET t == a[i] * d + carry
         IN  << t % Base >> \o BMulSmallFrom(a, d, i + 1, t \div Base)

\* a * d for one limb d.
BMulSmall(a, d) == BNorm(BMulSmallFrom(a, d, 1, 0))

BShiftLimbs(a, k) ==
    IF a = << >> THEN << >> ELSE [i \in 1..k |-> 0] \o a

RECURSIVE BMulFrom(_, _, _)
BMulFrom(a, b, j) ==
    IF j > Len(b) THEN << >>
    ELSE BAdd(BMulSmall(a, b[j]), BShiftLimbs(BMulFrom(a, b, j + 1), 1))

BMul(a, b) == BMulFrom(a, b, 1)

RECURSIVE BDivSmallFrom(_, _, _, _)
BDivSmallFrom(a, d, i, rem) ==
    IF i = 0 THEN << >>
    ELSE LET cur == rem * Base + a[i]
         IN  BDivSmallFrom(a, d, i - 1, cur % d) \o << cur \div d >>

\* a \div d and a % d for 0 < d <= Base.
BDivSmall(a, d) == BNorm(BDivSmallFrom(a, d, Len(a), 0))

RECURSIVE BModSmallFrom(_, _, _, _)
BModSmallFrom(a, d, i, rem) ==
    IF i = 0 THEN rem
    ELSE BModSmallFrom(a, d, i - 1, (rem * Base + a[i]) % d)

BModSmall(a, d) == BModSmallFrom(a, d, Len(a), 0)

\* a * 2^s and a \div 2^s.
BShl(a, s) ==
    BShiftLimbs(BMulSmall(a, 2 ^ (s % LimbBits)), s \div LimbBits)

BShr(a, s) ==
    BDivSmall(SubSeq(a, (s \div LimbBits) + 1, Len(a)), 2 ^ (s % LimbBits))

RECURSIVE BitLenSmall(_)
BitLenSmall(n) == IF n = 0 THEN 0 ELSE 1 + BitLenSmall(n \div 2)

BBitLen(a) ==
    IF a = << >> THEN 0
    ELSE LimbBits * (Len(a) - 1) + BitLenSmall(a[Len(a)])

BIsOdd(a) == a # << >> /\ a[1] % 2 = 1

\* a \div 2^s rounded to the nearest integer, ties to even.
BShrNearestEven(a, s) ==
    IF s <= 0 THEN a
    ELSE LET q == BShr(a, s)
             r == BSub(a, BShl(q, s))
             c == BCmp(r, BShl(<< 1 >>, s - 1))
         IN  IF c < 0 THEN q
             ELSE IF c > 0 THEN BAdd(q, << 1 >>)
             ELSE IF BIsOdd(q) THEN BAdd(q, << 1 >>) ELSE q

\* The double nearest to (-1)^neg * m * 2^e (ties to even); the values of the
\* pipeline are far from the subnormal and the infinite range.
DRound(neg, m, e) ==
    LET s == BBitLen(m) - SignificandBits
    IN  IF s <= 0 THEN [neg |-> neg, m |-> m, e |-> e]
        ELSE [neg |-> neg, m |-> BShrNearestEven(m, s), e |-> e + s]

DFromInt(n) ==
    [neg |-> n < 0, m |-> BFromInt(IF n < 0 THEN -n ELSE n), e |-> 0]

\* Bits of the quotient kept before rounding: more than SignificandBits + 2
\* for every numerator, so that the remainder's sticky bit decides the rounding.
QuotientBits == 72

\* The double a numeric literal or parseFloat gives for the decimal num/den
\* (0 < den <= Base): num/den correctly rounded.
DFromRatio(num, den) ==
    LET n == BShl(BFromInt(IF num < 0 THEN -num ELSE num), QuotientBits)
        q == BDivSmall(n, den)
        sticky == IF BModSmall(n, den) = 0 THEN << >> ELSE << 1 >>
    IN  DRound(num < 0, BAdd(BShl(q, 1), sticky), -(QuotientBits + 1))

DNeg(a) == [neg |-> ~a.neg, m |-> a.m, e |-> a.e]

\* a * b as the double operator rounds it.
DMul(a, b) == DRound(a.neg # b.neg, BMul(a.m, b.m), a.e + b.e)

\* num / den for two integers as the double operator rounds it.
DDivInt(num, den) == DFromRatio(num, den)

\* a + b as the double operator rounds it.
DAdd(a, b) ==
    LET e == IF a.e < b.e THEN a.e ELSE b.e
        x == BShl(a.m, a.e - e)
        y == BShl(b.m, b.e - e)
    IN  IF a.neg = b.neg THEN DRound(a.neg, BAdd(x, y), e)
        ELSE IF BCmp(x, y) >= 0 THEN DRound(a.neg, BSub(x, y), e)
        ELSE DRound(b.neg, BSub(y, x), e)

DSub(a, b) == DAdd(a, DNeg(b))

DHalf == [neg |-> FALSE, m |-> << 1 >>, e |-> -1]

DOne == [neg |-> FALSE, m |-> << 1 >>, e |-> 0]

\* The store of a double into a Uint8ClampedArray cell: clamped to 0..255 and
\* rounded to the nearest integer, ties to even.
DToUint8Clamped(a) ==
    IF a.neg \/ a.m = << >> THEN 0
    ELSE LET x == IF a.e > 0 THEN BShl(a.m, a.e) ELSE a.m
             s == IF a.e > 0 THEN 0 ELSE -a.e
         IN  IF BCmp(x, BShl(BFromInt(255), s)) >= 0 THEN 255
             ELSE BToInt(BShrNearestEven(x, s))

IsPowerOfTwo(n) == \E k \in 0..30 : n = 2 ^ k

\* Whether the number num/den (den > 0) lies exactly halfway between two
\* integers.
IsHalfway(num, den) == 2 * (num % den) = den

\* The byte a Uint8ClampedArray cell holds after the store of an expression
\* whose value in real numbers is num/den and whose value in doubles is
\* double.  Each operation of the pipeline errs by at most 2^-53 of its
\* result, so double is within 2^-20 of num/den for all operands that fit the
\* 32-bit integers used here, and num/den, when it is not halfway between two
\* integers, is at least 1/(2 * den) >= 2^-17 away from halfway there: the two
\* values then round to the same byte.  The double is therefore computed only
\* for the halfway values, where its rounding errors decide the byte.
StoreUint8Clamped(num, den, double) ==
    IF IsHalfway(num, den) THEN DToUint8Clamped(double)
    ELSE ToUint8Clamped(num, den)

\* ------------------------------------------------------------ palettes

\* parseInt's value of one hexadecimal digit.
HexDigit(c) ==
    CASE c = "0" -> 0  [] c = "1" -> 1  [] c = "2" -> 2  [] c = "3" -> 3
      [] c = "4" -> 4  [] c = "5" -> 5  [] c = "6" -> 6  [] c = "7" -> 7
      [] c = "8" -> 8  [] c = "9" -> 9  [] c = "a" -> 10 [] c = "b" -> 11
      [] c = "c" -> 12 [] c = "d" -> 13 [] c = "e" -> 14 [] c = "f" -> 15

\* parseInt(s, 16) of a sequence of hexadecimal digits.
RECURSIVE ParseInt16(_)
ParseInt16(s) ==
    IF s = << >> THEN 0
    ELSE 16 * ParseInt16(SubSeq(s, 1, Len(s) - 1)) + HexDigit(s[Len(s)])

\* A CSS colour "#rrggbb" as the sequence of its characters.
Hex(r1, r2, g1, g2, b1, b2) == <<"#", r1, r2, g1, g2, b1, b2>>

PALETTES ==
    [classic   |-> [name |-> "Classic GB",
                    colors |-> << Hex("0","f","3","8","0","f"), Hex("3","0","6","2","3","0"),
                                  Hex("8","b","a","c","0","f"), Hex("9","b","b","c","0","f") >>],
     sunset    |-> [name |-> "Sunset",
                    colors |-> << Hex("1","a","1","0","3","4"), Hex("8","b","3","a","6","2"),
                                  Hex("e","0","5","a","4","6"), Hex("f","2","d","0","9","e") >>],
     amber     |-> [name |-> "Amber",
                    colors |-> << Hex("1","b","1","0","0","0"), Hex("6","b","4","e","0","0"),
                                  Hex("c","8","a","8","0","0"), Hex("f","f","f","f","f","f") >>],
     teal      |-> [name |-> "Teal",
                    colors |-> << Hex("0","d","1","b","0","e"), Hex("1","a","5","c","2","a"),
                                  Hex("3","c","b","4","6","0"), Hex("9","f","f","f","b","0") >>],
     noir      |-> [name |-> "Noir",
                    colors |-> << Hex("0","0","0","0","0","0"), Hex("5","5","5","5","5","5"),
                                  Hex("a","a","a","a","a","a"), Hex("f","f","f","f","f","f") >>],
     vaporwave |-> [name |-> "Vapor",
                    colors |-> << Hex("2","b","0","0","4","0"), Hex("8","0","0","0","a","0"),
                                  Hex("f","f","6","0","9","0"), Hex("f","f","c","c","8","0") >>]]

\* hexToRgb: n = parseInt(hex.slice(1), 16); [(n >> 16) & 255, (n >> 8) & 255, n & 255].
hexToRgb(hex) ==
    LET n == ParseInt16(SubSeq(hex, 2, Len(hex)))
    IN  << (n \div 65536) % 256, (n \div 256) % 256, n % 256 >>

\* The names every JavaScript object inherits from Object.prototype: PALETTES[k]
\* is a value for them too, although PALETTES has no own property k.
InheritedKeys ==
    {"__defineGetter__", "__defineSetter__", "__lookupGetter__",
     "__lookupSetter__", "__proto__", "constructor", "hasOwnProperty",
     "isPrototypeOf", "propertyIsEnumerable", "toLocaleString", "toString",
     "valueOf"}

\* PALETTES[paletteKey]: the registered palette, an inherited member of
\* Object.prototype (an object without a colors property), or undefined.
PaletteLookup(paletteKey) ==
    IF paletteKey \in DOMAIN PALETTES
    THEN [kind |-> "palette", colors |-> PALETTES[paletteKey].colors]
    ELSE IF paletteKey \in InheritedKeys
    THEN [kind |-> "inherited", colors |-> << >>]
    ELSE [kind |-> "undefined", colors |-> << >>]

\* getPaletteRgb: what the call returns or throws.
\*   !palette            -> throw new Error(`Unknown palette: ${paletteKey}`)
\*   palette.colors.map  -> TypeError when palette.colors is undefined
getPaletteRgb(paletteKey) ==
    LET palette == PaletteLookup(paletteKey)
    IN  IF palette.kind = "undefined"
        THEN [threw |-> "Error: Unknown palette", rgb |-> << >>]
        ELSE IF palette.kind = "inherited"
        THEN [threw |-> "TypeError", rgb |-> << >>]
        ELSE [threw |-> "none",
              rgb |-> [i \in 1..Len(palette.colors) |-> hexToRgb(palette.colors[i])]]

\* ------------------------------------------------------------- pipeline

GBC_WIDTH == 128

GBC_HEIGHT == 112

\* BAYER_4x4, in sixteenths: BAYER_4x4[(y % 4) + 1][(x % 4) + 1] / BayerDen.
BAYER_4x4 ==
    << << 0,  8,  2, 10 >>,
       << 12, 4, 14,  6 >>,
       << 3, 11,  1,  9 >>,
       << 15, 7, 13,  5 >> >>

BayerDen == 16

\* EDGE_KERNEL[(ky + 1) * 3 + (kx + 1)], here 1-based.
EDGE_KERNEL == << 0, -1, 0,  -1, 5, -1,  0, -1, 0 >>

RECURSIVE RowsLength(_)
\* The number of pixels held by a sequence of rows.
RowsLength(rows) ==
    IF rows = << >> THEN 0 ELSE Len(Head(rows)) + RowsLength(Tail(rows))

\* imageData.data.length
DataLength(img) == 4 * RowsLength(img.data)

\* The pixel of img at column x, row y (data index (y * width + x) * 4).
PixelAt(img, x, y) == img.data[y + 1][x + 1]

\* Every pixel of img, as the set of its <<x, y>>.
Pixels(img) == (0..(img.width - 1)) \X (0..(img.height - 1))

\* Columns floor(t*s/tn) .. ceil((t+1)*s/tn) - 1 of the source lie under column
\* t of the target (at least one: a magnified source repeats its columns).
FootLo(t, s, tn) == (t * s) \div tn

FootHi(t, s, tn) == Max(FootLo(t, s, tn), ((t + 1) * s + tn - 1) \div tn - 1)

RECURSIVE SumChannel(_, _, _, _, _, _)
\* The sum of channel c over columns x0..x1 of rows y0..y1 of img.
SumChannel(img, c, x0, x1, y0, y1) ==
    IF y0 > y1 \/ x0 > x1 THEN 0
    ELSE IF x0 < x1
    THEN SumChannel(img, c, x0, x0, y0, y1) + SumChannel(img, c, x0 + 1, x1, y0, y1)
    ELSE PixelAt(img, x0, y0)[c] + SumChannel(img, c, x0, x1, y0 + 1, y1)

\* The target pixel (x, y) of a downscale of source to targetW x targetH: the
\* rounded mean of the source pixels under it.
AreaAverage(source, targetW, targetH, x, y) ==
    LET x0 == FootLo(x, source.width, targetW)
        x1 == FootHi(x, source.width, targetW)
        y0 == FootLo(y, source.height, targetH)
        y1 == FootHi(y, source.height, targetH)
        n  == (x1 - x0 + 1) * (y1 - y0 + 1)
    IN  IF n = 1 THEN PixelAt(source, x0, y0)
        ELSE [c \in 1..4 |->
                (2 * SumChannel(source, c, x0, x1, y0, y1) + n) \div (2 * n)]

\* A downscale that keeps one canvas across calls and, once an image has been
\* returned and kept, hands back what that canvas still holds.
downscaleStaleCanvas(source, targetW, targetH) ==
    IF memo.set
    THEN memo.result
    ELSE [width  |-> targetW,
          height |-> targetH,
          data   |-> [r \in 1..targetH |-> [c \in 1..targetW |->
                         AreaAverage(source, targetW, targetH, c - 1, r - 1)]]]

\* A downscale that sizes its canvas after the source, not after the target.
downscaleSourceSized(source, targetW, targetH) ==
    [width  |-> source.width,
     height |-> source.height,
     data   |-> [r \in 1..source.height |-> [c \in 1..source.width |->
                    AreaAverage(source, source.width, source.height, c - 1, r - 1)]]]

\* downscale: a new targetW x targetH ImageData read back from a canvas the
\* source was drawn on with smoothing; the source itself is only read.
downscale(source, targetW, targetH) ==
    [width  |-> targetW,
     height |-> targetH,
     data   |-> [r \in 1..targetH |-> [c \in 1..targetW |->
                    AreaAverage(source, targetW, targetH, c - 1, r - 1)]]]

\* A store that also sets the alpha byte, to opaque.
GrayPixelOpaque(v, px) == << v, v, v, 255 >>

\* d[i] = d[i + 1] = d[i + 2] = v; d[i + 3] is not written.
GrayPixel(v, px) == << v, v, v, px[4] >>

\* lum = 0.299 * d[i] + 0.587 * d[i + 1] + 0.114 * d[i + 2], each product and
\* each sum rounded to a double, left to right.
LuminanceDouble(px) ==
    DAdd(DAdd(DMul(DFromRatio(299, 1000), DFromInt(px[1])),
              DMul(DFromRatio(587, 1000), DFromInt(px[2]))),
         DMul(DFromRatio(114, 1000), DFromInt(px[3])))

\* The byte toGrayscale stores for a pixel.
Luminance(px) ==
    StoreUint8Clamped(299 * px[1] + 587 * px[2] + 114 * px[3], 1000,
                      LuminanceDouble(px))

GrayscaleAt(imageData, x, y) ==
    GrayPixel(Luminance(PixelAt(imageData, x, y)), PixelAt(imageData, x, y))

\* toGrayscale: in place, every pixel.
toGrayscale(imageData) ==
    [imageData EXCEPT !.data =
        [r \in DOMAIN imageData.data |-> [c \in DOMAIN imageData.data[r] |->
            GrayscaleAt(imageData, c - 1, r - 1)]]]

\* A contrast that scales the byte down by 256 where the code divides by 255.
ContrastValueOver256(v, f) ==
    ToUint8Clamped(((2 * v - 256) * f[1] + 256 * f[2]) * 255, 2 * f[2] * 256)

\* ((d[i] / 255 - 0.5) * factor + 0.5) * 255 for d[i] = v and the double
\* factor nearest to f[1]/f[2], each operation rounded to a double.
ContrastDouble(v, f) ==
    DMul(DAdd(DMul(DSub(DDivInt(v, 255), DHalf), DFromRatio(f[1], f[2])),
              DHalf),
         DFromInt(255))

\* The byte applyContrast stores for d[i] = v and factor = f[1]/f[2]:
\* max(0, min(255, ((v / 255 - 0.5) * factor + 0.5) * 255)).
ContrastValue(v, f) ==
    StoreUint8Clamped((2 * v - 255) * f[1] + 255 * f[2], 2 * f[2],
                      ContrastDouble(v, f))

ContrastAt(imageData, factor, x, y) ==
    GrayPixel(ContrastValue(PixelAt(imageData, x, y)[1], factor), PixelAt(imageData, x, y))

\* applyContrast: in place, every pixel, from d[i] alone.
applyContrast(imageData, factor) ==
    [imageData EXCEPT !.data =
        [r \in DOMAIN imageData.data |-> [c \in DOMAIN imageData.data[r] |->
            ContrastAt(imageData, factor, c - 1, r - 1)]]]

\* original[idx] * EDGE_KERNEL[(ky + 1) * 3 + (kx + 1)] for the neighbour (kx, ky).
KernelTerm(original, x, y, kx, ky) ==
    PixelAt(original, x + kx, y + ky)[1] * EDGE_KERNEL[(ky + 1) * 3 + (kx + 1) + 1]

\* sum: the kernel-weighted sum over the 3x3 neighbourhood of (x, y).
KernelSum(original, x, y) ==
      KernelTerm(original, x, y, -1, -1) + KernelTerm(original, x, y, 0, -1)
    + KernelTerm(original, x, y, 1, -1)  + KernelTerm(original, x, y, -1, 0)
    + KernelTerm(original, x, y, 0, 0)   + KernelTerm(original, x, y, 1, 0)
    + KernelTerm(original, x, y, -1, 1)  + KernelTerm(original, x, y, 0, 1)
    + KernelTerm(original, x, y, 1, 1)

\* original[idx] * (1 - strength) + sum * strength for original[idx] = o and
\* the double strength nearest to s[1]/s[2], each operation rounded to a double.
EnhancedDouble(o, sum, s) ==
    DAdd(DMul(DFromInt(o), DSub(DOne, DFromRatio(s[1], s[2]))),
         DMul(DFromInt(sum), DFromRatio(s[1], s[2])))

\* The byte edgeEnhance stores at an interior pixel, strength = s[1]/s[2]:
\* max(0, min(255, original[idx] * (1 - strength) + sum * strength)).
\* A strength whose denominator is a power of two is a double, and so are its
\* products with the pixels and their sum: no operation rounds.
EnhancedValue(original, x, y, s) ==
    IF IsPowerOfTwo(s[2])
    THEN ToUint8Clamped(PixelAt(original, x, y)[1] * (s[2] - s[1])
                            + KernelSum(original, x, y) * s[1], s[2])
    ELSE StoreUint8Clamped(PixelAt(original, x, y)[1] * (s[2] - s[1])
                               + KernelSum(original, x, y) * s[1], s[2],
                           EnhancedDouble(PixelAt(original, x, y)[1],
                                          KernelSum(original, x, y), s))

\* for (y = 1; y < height - 1; y++) for (x = 1; x < width - 1; x++)
IsInterior(img, x, y) ==
    /\ 1 <= y /\ y < img.height - 1
    /\ 1 <= x /\ x < img.width - 1

EnhanceAt(original, strength, x, y) ==
    IF IsInterior(original, x, y)
    THEN GrayPixel(EnhancedValue(original, x, y, strength), PixelAt(original, x, y))
    ELSE PixelAt(original, x, y)

\* One pass of the loop body that reads the neighbourhood from the buffer it
\* is writing, not from the copy taken on entry.
EnhanceStepNoSnapshot(imageData, original, strength, x, y) ==
    [imageData EXCEPT !.data[y + 1][x + 1] =
        GrayPixel(EnhancedValue(imageData, x, y, strength), PixelAt(imageData, x, y))]

\* One pass of the loop body at the interior pixel (x, y): sum and enhanced
\* are read from `original`, data[idx], data[idx + 1], data[idx + 2] are
\* written, data[idx + 3] is left.
EnhanceStep(imageData, original, strength, x, y) ==
    [imageData EXCEPT !.data[y + 1][x + 1] =
        GrayPixel(EnhancedValue(original, x, y, strength), PixelAt(imageData, x, y))]

\* The pixels the loops of edgeEnhance visit.
Interior(img) == { p \in Pixels(img) : IsInterior(img, p[1], p[2]) }

\* edgeEnhance: in place; every read is of `original`, the copy of the data
\* taken on entry.
edgeEnhance(imageData, strength) ==
    [imageData EXCEPT !.data =
        [r \in DOMAIN imageData.data |-> [c \in DOMAIN imageData.data[r] |->
            EnhanceAt(imageData, strength, c - 1, r - 1)]]]

SpreadNum == 33

SpreadDen == 100

\* A dithered value with the threshold at full weight (spread = 1).
DitheredNumFullSpread(v, x, y) ==
      v * (2 * BayerDen * SpreadDen)
    + (2 * BAYER_4x4[(y % 4) + 1][(x % 4) + 1] - BayerDen) * SpreadDen * 255

\* dithered = gray + threshold * spread, as the fraction DitheredNum / DitheredDen:
\* gray = v / 255, threshold = BAYER_4x4[y % 4][x % 4] - 0.5, spread = 0.33.
DitheredNum(v, x, y) ==
      v * (2 * BayerDen * SpreadDen)
    + (2 * BAYER_4x4[(y % 4) + 1][(x % 4) + 1] - BayerDen) * SpreadNum * 255

DitheredDen == 255 * 2 * BayerDen * SpreadDen

\* if (dithered < 0.25) shade = 0; else if (< 0.5) 1; else if (< 0.75) 2; else 3
Quantize(d) ==
    IF 4 * d < DitheredDen THEN 0
    ELSE IF 2 * d < DitheredDen THEN 1
    ELSE IF 4 * d < 3 * DitheredDen THEN 2
    ELSE 3

Shade(v, x, y) == Quantize(DitheredNum(v, x, y))

\* data[idx], data[idx + 1], data[idx + 2] = paletteRgb[shade]; data[idx + 3] = 255
Colorize(rgb) == << rgb[1], rgb[2], rgb[3], 255 >>

\* A colorize that takes the threshold from the matrix's column y, row x.
ColorizeAtTransposed(imageData, paletteRgb, x, y) ==
    Colorize(paletteRgb[Shade(PixelAt(imageData, x, y)[1], y, x) + 1])

\* A colorize that writes the three colour bytes and leaves the alpha byte as
\* it found it.
ColorizeAtKeepAlpha(imageData, paletteRgb, x, y) ==
    LET px == PixelAt(imageData, x, y)
        c  == paletteRgb[Shade(px[1], x, y) + 1]
    IN  << c[1], c[2], c[3], px[4] >>

ColorizeAt(imageData, paletteRgb, x, y) ==
    Colorize(paletteRgb[Shade(PixelAt(imageData, x, y)[1], x, y) + 1])

\* ditherAndColorize: in place, every pixel in one pass.
ditherAndColorize(imageData, paletteRgb) ==
    [imageData EXCEPT !.data =
        [r \in DOMAIN imageData.data |-> [c \in DOMAIN imageData.data[r] |->
            ColorizeAt(imageData, paletteRgb, c - 1, r - 1)]]]

\* An upscale that samples the source at the rounded, not the floored, place.
upscaleRounded(source, scale) ==
    [width  |-> source.width * scale,
     height |-> source.height * scale,
     data   |-> [r \in 1..(source.height * scale) |->
                   [c \in 1..(source.width * scale) |->
                      PixelAt(source,
                              Min(source.width - 1, (2 * (c - 1) + scale) \div (2 * scale)),
                              Min(source.height - 1, (2 * (r - 1) + scale) \div (2 * scale)))]]]

\* upscaleNearest: a new (sw * scale) x (sh * scale) ImageData read back from a
\* canvas the source was drawn on with imageSmoothingEnabled = false: each
\* output pixel takes the source pixel under its centre.
upscaleNearest(source, scale) ==
    LET sw == source.width
        sh == source.height
        dw == sw * scale
        dh == sh * scale
    IN  [width  |-> dw,
         height |-> dh,
         data   |-> [r \in 1..dh |-> [c \in 1..dw |->
                        PixelAt(source, ((2 * c - 1) * sw) \div (2 * dw),
                                        ((2 * r - 1) * sh) \div (2 * dh))]]]

\* ------------------------------------------------------ processFrame

\* A test that takes every non-zero strength for a wish to enhance.
EdgeWantedNonZero(e) == e[1] # 0

\* if (edgeStrength > 0)
EdgeWanted(e) == e[1] > 0

\* A processFrame that adjusts the contrast before it converts to gray.
StageAfterContrastFirst(stage, e) ==
    CASE stage = "palette"   -> "downscale"
      [] stage = "downscale" -> "contrast"
      [] stage = "contrast"  -> "grayscale"
      [] stage = "grayscale" -> IF EdgeWanted(e) THEN "edge" ELSE "dither"
      [] stage = "edge"      -> "dither"
      [] stage = "dither"    -> "done"

\* The stage processFrame runs after `stage`: the order of its statements.

StageAfter(stage, e) ==
    CASE stage = "palette"   -> "downscale"
      [] stage = "downscale" -> "grayscale"
      [] stage = "grayscale" -> "contrast"
      [] stage = "contrast"  -> IF EdgeWanted(e) THEN "edge" ELSE "dither"
      [] stage = "edge"      -> "dither"
      [] stage = "dither"    -> "done"

\* -------------------------------------------------------------- gallery

\* if (photos.length > 30) photos.pop()
MaxPhotos == 30

\* getPhotos: the parsed list, [] when the key is absent or JSON.parse throws.
getPhotos(item) == IF item.kind = "json" THEN item.photos ELSE << >>

\* photos.unshift(photo)
Unshift(photos, photo) == << photo >> \o photos

\* A save that never drops a photo.
KeepMaxNever(photos) == photos

\* if (photos.length > 30) photos.pop()
KeepMax(photos) ==
    IF Len(photos) > MaxPhotos THEN SubSeq(photos, 1, Len(photos) - 1) ELSE photos

\* savePhoto: what localStorage holds under STORAGE_KEY afterwards.
savePhoto(item, photo) ==
    [kind |-> "json", photos |-> KeepMax(Unshift(getPhotos(item), photo))]

\* getPhotos().filter((p) => p.id !== id)
FilterOut(photos, id) == SelectSeq(photos, LAMBDA ph : ph.id # id)

\* deletePhoto: what localStorage holds under STORAGE_KEY afterwards.
deletePhoto(item, id) ==
    [kind |-> "json", photos |-> FilterOut(getPhotos(item), id)]

\* --------------------------------------------------------------- camera

\* this.stream = null
NoStream == 0

\* stop(): the streams left live when this.stream was s:
\* if (this.stream) this.stream.getTracks().forEach((t) => t.stop()).
StopTracks(s, l) == IF s # NoStream THEN l \ { s } ELSE l

\* this.facingMode === 'environment' ? 'user' : 'environment'
Flipped(fm) == IF fm = "environment" THEN "user" ELSE "environment"

\* -------------------------------------------------------------- inputs

\* The frame of the scenario: 128 x 112, every pixel (128, 128, 128).
MidGrayPixel(x, y) == << 128, 128, 128, 255 >>

\* A gray frame in which each luminance 0..255 fills whole 4x4 blocks, so that
\* every luminance meets every cell of the Bayer matrix.
SweepPixel(x, y) ==
    LET v == ((x \div 4) + 32 * (y \div 4)) % 256 IN << v, v, v, 255 >>

\* Colours whose luminance in real numbers is halfway between two integers:
\* 59.5, 97.5, 23.5 and 41.5.
HalfwayColours ==
    << << 0, 80, 110 >>, << 0, 156, 52 >>, << 1, 37, 13 >>, << 4, 64, 24 >> >>

\* A small colour photo (the downscale magnifies it), transparent at its left
\* and with the halfway colours at its top right.
ColourPixel(x, y) ==
    IF x = 15 /\ y < Len(HalfwayColours)
    THEN HalfwayColours[y + 1] \o << 255 >>
    ELSE << (37 * x + 11 * y) % 256, (91 * y + 5 * x) % 256,
            (53 * (x + y) + 7) % 256, IF x = 0 THEN 128 ELSE 255 >>

\* A strip wider than the target and lower than it.
StripPixel(x, y) ==
    LET v == (x * (y + 1)) % 256 IN << v, v, v, 255 >>

MidGrayImage ==
    [width |-> GBC_WIDTH, height |-> GBC_HEIGHT,
     data |-> [r \in 1..GBC_HEIGHT |-> [c \in 1..GBC_WIDTH |-> MidGrayPixel(c - 1, r - 1)]]]

SweepImage ==
    [width |-> GBC_WIDTH, height |-> GBC_HEIGHT,
     data |-> [r \in 1..GBC_HEIGHT |-> [c \in 1..GBC_WIDTH |-> SweepPixel(c - 1, r - 1)]]]

ColourImage ==
    [width |-> 16, height |-> 14,
     data |-> [r \in 1..14 |-> [c \in 1..16 |-> ColourPixel(c - 1, r - 1)]]]

StripImage ==
    [width |-> 2 * GBC_WIDTH, height |-> 2,
     data |-> [r \in 1..2 |-> [c \in 1..2 * GBC_WIDTH |-> StripPixel(c - 1, r - 1)]]]

SourceImage(name) ==
    CASE name = "midgray" -> MidGrayImage
      [] name = "sweep"   -> SweepImage
      [] name = "colour"  -> ColourImage
      [] name = "strip"   -> StripImage

SourceNames == {"midgray", "sweep", "colour", "strip"}

PaletteKeys == DOMAIN PALETTES \cup InheritedKeys \cup {"nonexistent"}

\* options.contrast and options.edgeStrength, as <<numerator, denominator>>.
Contrasts == { <<1, 1>>, <<3, 2>> }

EdgeStrengths == { <<0, 1>>, <<1, 2>>, <<-1, 2>> }

\* Calls whose contrast lies outside the slider's [0.5, 2.5] and whose edge
\* strength lies outside [0, 1].
OutOfRangeFrames ==
    { << "sweep",  "classic", <<3, 1>>,  <<3, 2>> >>,
      << "colour", "classic", <<1, 4>>,  <<2, 1>> >>,
      << "strip",  "classic", <<-1, 1>>, <<-3, 1>> >> }

\* Calls that leave the options out: contrast = 1.2, edgeStrength = 0.3.
DefaultFrames == SourceNames \X {"classic"} \X { <<6, 5>> } \X { <<3, 10>> }

\* The processFrame calls drawn: every source with every contrast and edge
\* strength and with the defaults, and every palette key on the frame that
\* holds every luminance.
Frames ==
         (SourceNames \X {"classic"} \X Contrasts \X EdgeStrengths)
    \cup ({"sweep"} \X PaletteKeys \X { <<1, 1>> } \X { <<0, 1>> })
    \cup DefaultFrames
    \cup OutOfRangeFrames

\* The calls drawn when an earlier call is remembered and compared.
RepeatFrames ==
    { << "midgray", "classic", <<1, 1>>, <<1, 2>> >>,
      << "midgray", "noir",    <<1, 1>>, <<0, 1>> >>,
      << "colour",  "classic", <<3, 2>>, <<0, 1>> >>,
      << "colour",  "noir",    <<1, 1>>, <<1, 2>> >> }

NoImage == [width |-> 0, height |-> 0, data |-> << >>]

NoMemo ==
    [set |-> FALSE, source |-> NoImage, paletteKey |-> "", contrast |-> <<1, 1>>,
     edgeStrength |-> <<0, 1>>, result |-> NoImage, others |-> FALSE]

\* A small gray image holding the luminances 32k .. 32k + 31 (mod 256), alpha
\* varying.
RampPixel(k, x, y) ==
    LET v == (32 * k + 8 * y + x) % 256 IN << v, v, v, 255 - ((x + y) % 3) >>

RampImage(k) ==
    [width |-> 8, height |-> 4,
     data |-> [r \in 1..4 |-> [c \in 1..8 |-> RampPixel(k, c - 1, r - 1)]]]

\* A small opaque colour image of w x h pixels (what the program upscales is
\* what processFrame returned, which is opaque).
PatchPixel(x, y) ==
    << (40 * x + 7 * y) % 256, (90 * y + 3) % 256, (17 * (x + 2 * y)) % 256, 255 >>

PatchImage(w, h) ==
    [width |-> w, height |-> h,
     data |-> [r \in 1..h |-> [c \in 1..w |-> PatchPixel(c - 1, r - 1)]]]

MaxRamp == 7

MaxPatch == 4

MaxScale == 4

RampImages == { RampImage(k) : k \in 0..MaxRamp }

PatchImages == { PatchImage(w, h) : w \in 1..MaxPatch, h \in 1..MaxPatch }

\* A small gray image with steep steps between neighbours, alpha varying.
EdgePixel(k, x, y) ==
    LET v == (37 * k + 50 * x * x + 90 * y + 13 * x * y) % 256
    IN  << v, v, v, 255 - ((x + 2 * y + k) % 4) >>

EdgeImage(k, w, h) ==
    [width |-> w, height |-> h,
     data |-> [r \in 1..h |-> [c \in 1..w |-> EdgePixel(k, c - 1, r - 1)]]]

MaxEdgeImage == 2

\* The sizes of the images the enhancer is run on alone: with an interior of
\* 3 x 2 pixels, of one pixel, and with none (W < 3 or H < 3).
EdgeSizes == { <<5, 4>>, <<3, 3>>, <<2, 4>>, <<5, 2>>, <<1, 1>> }

EdgeImages == { EdgeImage(k, d[1], d[2]) : k \in 0..MaxEdgeImage, d \in EdgeSizes }

\* Strengths edgeEnhance is run with alone.
Strengths == { <<1, 2>>, <<1, 1>>, <<2, 1>>, <<3, 10>> }

\* A gray image of 5 x 5 pixels, all of luminance v, alpha varying: with one
\* image per v, every luminance meets every cell of the Bayer matrix.
DitherPixel(v, x, y) == << v, v, v, 255 - ((x + y) % 2) >>

DitherImage(v) ==
    [width |-> 5, height |-> 5,
     data |-> [r \in 1..5 |-> [c \in 1..5 |-> DitherPixel(v, c - 1, r - 1)]]]

DitherImages == { DitherImage(v) : v \in 0..255 }

\* Contrast factors, inside and outside the slider's range.
Factors == { <<1, 1>>, <<1, 2>>, <<3, 2>>, <<5, 2>>, <<3, 1>>, <<6, 5>>, <<2, 1>> }

\* The gallery's bounds: how many saves and deletes a run makes, and the
\* number of photos localStorage may hold when the page loads.
MaxGalleryOps == 5

InitialCounts == { 0, MaxPhotos - 1, MaxPhotos }

\* The photo savePhoto builds; n stands for its fresh id.
Photo(n, palette) == [id |-> n, palette |-> palette]

InitialItems ==
         { [kind |-> "absent", photos |-> << >>], [kind |-> "corrupt", photos |-> << >>] }
    \cup { [kind |-> "json", photos |-> [i \in 1..n |-> Photo(n + 1 - i, "classic")]] :
             n \in InitialCounts }

\* --------------------------------------------------------------- state

VARIABLES
    pc,            \* the stage the running processFrame call is about to run
    source,        \* sourceImageData, the caller's buffer
    paletteKey,    \* the paletteKey argument
    contrast,      \* options.contrast
    edgeStrength,  \* options.edgeStrength
    paletteRgb,    \* const paletteRgb
    gray,          \* the buffer the stages work on (downscaled / gray)
    result,        \* the ImageData the call returned
    thrown,        \* the error the call threw
    stagesRun,     \* the stages the call has run, in order
    fn,            \* the stage function last called on its own
    param,         \* its factor or scale
    before,        \* the ImageData passed to it, as it was on entry
    buffer,        \* the same ImageData after the call
    returned,      \* the ImageData it returned
    visited,       \* the pixels the running loop of edgeEnhance has visited
    item,          \* localStorage[STORAGE_KEY]
    nextId,        \* stands for the next `photo_${Date.now()}_...` id
    galleryOps,    \* saves and deletes made so far
    lastOp,        \* the last gallery operation and the list it found
    stream,        \* Camera: this.stream (NoStream: null)
    facingMode,    \* Camera: this.facingMode
    calls,         \* Camera: the start() calls that are at one of their awaits
    live,          \* the media streams obtained whose tracks are not stopped
    started        \* the number of start() calls made so far

frameVars == << pc, source, paletteKey, contrast, edgeStrength, paletteRgb, gray,
                result, thrown, stagesRun >>

stageVars == << fn, param, before, buffer, returned, visited >>

galleryVars == << item, nextId, galleryOps, lastOp >>

cameraVars == << stream, facingMode, calls, live, started >>

vars == << frameVars, stageVars, galleryVars, cameraVars, memo >>

NoOp == [op |-> "none", id |-> 0, found |-> << >>]

Init ==
    /\ pc = "idle"
    /\ source = NoImage
    /\ paletteKey = "classic"
    /\ contrast = <<1, 1>>
    /\ edgeStrength = <<0, 1>>
    /\ paletteRgb = << >>
    /\ gray = NoImage
    /\ result = NoImage
    /\ thrown = "none"
    /\ stagesRun = << >>
    /\ memo = NoMemo
    /\ fn = "none"
    /\ param = <<1, 1>>
    /\ before = NoImage
    /\ buffer = NoImage
    /\ returned = NoImage
    /\ visited = {}
    /\ item \in InitialItems
    /\ nextId = Len(item.photos) + 1
    /\ galleryOps = 0
    /\ lastOp = NoOp
    /\ stream = NoStream
    /\ facingMode = "environment"
    /\ calls = {}
    /\ live = {}
    /\ started = 0

\* The page loaded in a browser that holds no gallery yet.
InitEmpty == Init /\ item.kind = "absent"

\* --------------------------------------------------- processFrame, steps

\* The call noted was made with these arguments.
SameCall(m, src, key, c, e) ==
    /\ m.source = src
    /\ m.paletteKey = key
    /\ m.contrast = c
    /\ m.edgeStrength = e

\* processFrame(sourceImageData, paletteKey, {contrast, edgeStrength}) up to
\* const paletteRgb = getPaletteRgb(paletteKey), which may throw.
Call(src, key, c, e) ==
    /\ pc = "idle"
    /\ source' = src
    /\ paletteKey' = key
    /\ contrast' = c
    /\ edgeStrength' = e
    /\ gray' = NoImage
    /\ result' = NoImage
    /\ LET r == getPaletteRgb(key)
       IN  IF r.threw # "none"
           THEN /\ thrown' = r.threw
                /\ paletteRgb' = << >>
                /\ stagesRun' = << >>
                /\ pc' = "threw"
           ELSE /\ thrown' = "none"
                /\ paletteRgb' = r.rgb
                /\ stagesRun' = << "palette" >>
                /\ pc' = StageAfter("palette", e)
    /\ memo' = IF memo.set /\ ~SameCall(memo, src, key, c, e)
               THEN [memo EXCEPT !.others = TRUE]
               ELSE memo
    /\ UNCHANGED << stageVars, galleryVars, cameraVars >>

\* What a stage leaves alone.
StageFrame ==
    UNCHANGED << source, paletteKey, contrast, edgeStrength, paletteRgb, thrown,
                 stageVars, galleryVars, cameraVars, memo >>

\* const downscaled = downscale(sourceImageData, GBC_WIDTH, GBC_HEIGHT)
StepDownscale ==
    /\ pc = "downscale"
    /\ gray' = downscale(source, GBC_WIDTH, GBC_HEIGHT)
    /\ stagesRun' = Append(stagesRun, "downscale")
    /\ pc' = StageAfter("downscale", edgeStrength)
    /\ UNCHANGED result
    /\ StageFrame

\* const gray = toGrayscale(downscaled)
StepGrayscale ==
    /\ pc = "grayscale"
    /\ gray' = toGrayscale(gray)
    /\ stagesRun' = Append(stagesRun, "grayscale")
    /\ pc' = StageAfter("grayscale", edgeStrength)
    /\ UNCHANGED result
    /\ StageFrame

\* applyContrast(gray, contrast)
StepContrast ==
    /\ pc = "contrast"
    /\ gray' = applyContrast(gray, contrast)
    /\ stagesRun' = Append(stagesRun, "contrast")
    /\ pc' = StageAfter("contrast", edgeStrength)
    /\ UNCHANGED result
    /\ StageFrame

\* edgeEnhance(gray, edgeStrength)
StepEdge ==
    /\ pc = "edge"
    /\ gray' = edgeEnhance(gray, edgeStrength)
    /\ stagesRun' = Append(stagesRun, "edge")
    /\ pc' = StageAfter("edge", edgeStrength)
    /\ UNCHANGED result
    /\ StageFrame

\* ditherAndColorize(gray, paletteRgb); return gray
StepDither ==
    /\ pc = "dither"
    /\ gray' = ditherAndColorize(gray, paletteRgb)
    /\ result' = gray'
    /\ stagesRun' = Append(stagesRun, "dither")
    /\ pc' = StageAfter("dither", edgeStrength)
    /\ StageFrame

\* The caller takes what the call returned (or the error it threw) and drops
\* the frame: nothing of the call is kept.
Consume ==
    /\ pc \in {"done", "threw"}
    /\ pc' = "idle"
    /\ source' = NoImage
    /\ paletteKey' = "classic"
    /\ contrast' = <<1, 1>>
    /\ edgeStrength' = <<0, 1>>
    /\ paletteRgb' = << >>
    /\ gray' = NoImage
    /\ result' = NoImage
    /\ thrown' = "none"
    /\ stagesRun' = << >>
    /\ UNCHANGED << stageVars, galleryVars, cameraVars, memo >>

\* The observer notes the call that has just returned.
Remember ==
    /\ pc = "done"
    /\ ~memo.set
    /\ memo' = [set |-> TRUE, source |-> source, paletteKey |-> paletteKey,
                contrast |-> contrast, edgeStrength |-> edgeStrength,
                result |-> result, others |-> FALSE]
    /\ UNCHANGED << frameVars, stageVars, galleryVars, cameraVars >>

Steps ==
    \/ StepDownscale
    \/ StepGrayscale
    \/ StepContrast
    \/ StepEdge
    \/ StepDither
    \/ Consume

Next ==
    \/ \E f \in Frames : Call(SourceImage(f[1]), f[2], f[3], f[4])
    \/ Steps

Spec == InitEmpty /\ [][Next]_vars

NextRepeat ==
    \/ \E f \in RepeatFrames : Call(SourceImage(f[1]), f[2], f[3], f[4])
    \/ Steps
    \/ Remember

SpecRepeat == InitEmpty /\ [][NextRepeat]_vars

\* ------------------------------------------- stage functions on their own

\* Each call below is made on a fresh page (fn = "none"): the functions keep
\* nothing, and a call overwrites all that an earlier one left here.

\* applyContrast(imageData, factor) on an image of the caller's.
CallApplyContrast(img, f) ==
    /\ fn = "none"
    /\ fn' = "applyContrast"
    /\ param' = f
    /\ before' = img
    /\ buffer' = applyContrast(img, f)
    /\ returned' = NoImage
    /\ visited' = {}
    /\ UNCHANGED << frameVars, galleryVars, cameraVars, memo >>

\* upscaleNearest(source, scale) on an image of the caller's.
CallUpscaleNearest(img, scale) ==
    /\ fn = "none"
    /\ fn' = "upscaleNearest"
    /\ param' = << scale, 1 >>
    /\ before' = img
    /\ buffer' = img
    /\ returned' = upscaleNearest(img, scale)
    /\ visited' = {}
    /\ UNCHANGED << frameVars, galleryVars, cameraVars, memo >>

\* ditherAndColorize(imageData, paletteRgb) on an image of the caller's.
CallDitherAndColorize(img, key) ==
    /\ fn = "none"
    /\ fn' = "ditherAndColorize"
    /\ param' = getPaletteRgb(key).rgb
    /\ before' = img
    /\ buffer' = ditherAndColorize(img, getPaletteRgb(key).rgb)
    /\ returned' = NoImage
    /\ visited' = {}
    /\ UNCHANGED << frameVars, galleryVars, cameraVars, memo >>

NextStages ==
    \/ \E img \in DitherImages, key \in {"classic", "noir"} :
          CallDitherAndColorize(img, key)
    \/ \E img \in RampImages, f \in Factors : CallApplyContrast(img, f)
    \/ \E img \in PatchImages, scale \in 1..MaxScale :
          CallUpscaleNearest(img, scale)

SpecStages == InitEmpty /\ [][NextStages]_vars

\* ------------------------------------------- edgeEnhance, pixel by pixel

\* edgeEnhance(imageData, strength) up to the first pass of its loops:
\* const original = new Uint8ClampedArray(data).
EdgeBegin(img, s) ==
    /\ fn = "none"
    /\ fn' = "edgeEnhance"
    /\ param' = s
    /\ before' = img
    /\ buffer' = img
    /\ returned' = NoImage
    /\ visited' = {}
    /\ UNCHANGED << frameVars, galleryVars, cameraVars, memo >>

\* One pass of the loop body.  The code takes the interior pixels row by
\* row; here any interior pixel not yet visited may be the next, the code's
\* order being one of the orders.
EdgeVisit(x, y) ==
    /\ fn = "edgeEnhance"
    /\ << x, y >> \in Interior(before) \ visited
    /\ buffer' = EnhanceStep(buffer, before, param, x, y)
    /\ visited' = visited \cup { << x, y >> }
    /\ UNCHANGED << fn, param, before, returned, frameVars, galleryVars, cameraVars, memo >>

NextEdge ==
    \/ \E img \in EdgeImages, s \in Strengths : EdgeBegin(img, s)
    \/ \E p \in Pixels(before) : EdgeVisit(p[1], p[2])

SpecEdge == InitEmpty /\ [][NextEdge]_vars

\* ------------------------------------------------------ camera, actions

\* How many start() calls (direct or by flip()) a run makes.
MaxStarts == 3

\* start() up to its first await: this.stop(), then getUserMedia is asked for
\* a stream with the facing mode fm; the call waits for the answer.
StartBody(fm) ==
    /\ started < MaxStarts
    /\ live' = StopTracks(stream, live)
    /\ stream' = NoStream
    /\ started' = started + 1
    /\ calls' = calls \cup { [id |-> started + 1, at |-> "getUserMedia", facing |-> fm] }

\* camera.start()
CameraStart ==
    /\ StartBody(facingMode)
    /\ UNCHANGED << facingMode, frameVars, stageVars, galleryVars, memo >>

\* camera.flip(): the facing mode is toggled, then start().
CameraFlip ==
    /\ facingMode' = Flipped(facingMode)
    /\ StartBody(facingMode')
    /\ UNCHANGED << frameVars, stageVars, galleryVars, memo >>

\* camera.stop()
CameraStop ==
    /\ live' = StopTracks(stream, live)
    /\ stream' = NoStream
    /\ UNCHANGED << facingMode, calls, started, frameVars, stageVars, galleryVars, memo >>

\* getUserMedia answers the call c with a new stream (named after the call):
\* this.stream = <the stream>; this.video.srcObject = this.stream; the call
\* goes on to await this.video.play().
GetUserMediaResolves(c) ==
    /\ c \in calls
    /\ c.at = "getUserMedia"
    /\ live' = live \cup { c.id }
    /\ stream' = c.id
    /\ calls' = (calls \ { c }) \cup { [c EXCEPT !.at = "play"] }
    /\ UNCHANGED << facingMode, started, frameVars, stageVars, galleryVars, memo >>

\* getUserMedia rejects (access denied, no camera): the catch returns false.
GetUserMediaRejects(c) ==
    /\ c \in calls
    /\ c.at = "getUserMedia"
    /\ calls' = calls \ { c }
    /\ UNCHANGED << stream, live, facingMode, started, frameVars, stageVars,
                    galleryVars, memo >>

\* video.play() settles; the call returns true, or false from the catch.
PlaySettles(c) ==
    /\ c \in calls
    /\ c.at = "play"
    /\ calls' = calls \ { c }
    /\ UNCHANGED << stream, live, facingMode, started, frameVars, stageVars,
                    galleryVars, memo >>

NextCamera ==
    \/ CameraStart
    \/ CameraFlip
    \/ CameraStop
    \/ \E c \in calls : GetUserMediaResolves(c)
    \/ \E c \in calls : GetUserMediaRejects(c)
    \/ \E c \in calls : PlaySettles(c)

SpecCamera == InitEmpty /\ [][NextCamera]_vars

\* ------------------------------------------------------ gallery, actions

\* savePhoto(canvas, palette)
SavePhoto(palette) ==
    /\ galleryOps < MaxGalleryOps
    /\ item' = savePhoto(item, Photo(nextId, palette))
    /\ lastOp' = [op |-> "save", id |-> nextId, found |-> getPhotos(item)]
    /\ nextId' = nextId + 1
    /\ galleryOps' = galleryOps + 1
    /\ UNCHANGED << frameVars, stageVars, cameraVars, memo >>

\* The ids a delete is tried with: the newest, the oldest and the middle photo
\* of the list, and an id no photo has.
DeleteTargets(photos) ==
    {0} \cup (IF photos = << >> THEN {}
              ELSE { photos[1].id, photos[Len(photos)].id, photos[(Len(photos) + 1) \div 2].id })

\* deletePhoto(id)
DeletePhoto(id) ==
    /\ galleryOps < MaxGalleryOps
    /\ item' = deletePhoto(item, id)
    /\ lastOp' = [op |-> "delete", id |-> id, found |-> getPhotos(item)]
    /\ galleryOps' = galleryOps + 1
    /\ UNCHANGED << nextId, frameVars, stageVars, cameraVars, memo >>

NextGallery ==
    \/ \E palette \in {"classic", "noir"} : SavePhoto(palette)
    \/ \E id \in DeleteTargets(getPhotos(item)) : DeletePhoto(id)

SpecGallery == Init /\ [][NextGallery]_vars

\* ---------------------------------------------------------------- claims

Rgb(px) == << px[1], px[2], px[3] >>

Colours(img) == { Rgb(PixelAt(img, p[1], p[2])) : p \in Pixels(img) }

\* C1 (as the specification states it): a processFrame call whose palette key
\* is not one of the registered keys throws the "Unknown palette" error; it
\* has run no stage, holds no buffer and returns no image.
C1_UnknownPaletteError ==
    (pc # "idle" /\ paletteKey \notin DOMAIN PALETTES) =>
        /\ pc = "threw"
        /\ thrown = "Error: Unknown palette"
        /\ stagesRun = << >>
        /\ gray = NoImage
        /\ result = NoImage

\* C2: when processFrame has returned, every pixel of the returned image has
\* as its RGB triple one of the 4 entries of the resolved palette, and alpha 255.
C2_OnlyPaletteColours ==
    pc = "done" =>
        /\ Len(paletteRgb) = 4
        /\ \A p \in Pixels(result) :
              /\ Rgb(PixelAt(result, p[1], p[2])) \in { paletteRgb[i] : i \in 1..4 }
              /\ PixelAt(result, p[1], p[2])[4] = 255

\* A call with the edge enhancer on has returned an image for a source that
\* had pixels of alpha below 255, and the image shows more than one colour.
C2_Witness ==
    /\ pc = "done"
    /\ edgeStrength[1] > 0
    /\ \E p \in Pixels(source) : PixelAt(source, p[1], p[2])[4] < 255
    /\ Cardinality(Colours(result)) > 1

\* An ImageData of 128 columns by 112 rows with a buffer of 128*112*4 bytes.
C3_Shape(img) ==
    /\ img.width = 128
    /\ img.height = 112
    /\ Len(img.data) = 112
    /\ \A r \in 1..112 : Len(img.data[r]) = 128
    /\ DataLength(img) = 128 * 112 * 4

\* C3: from the downscale on, and in the image returned, the buffer is 128
\* columns by 112 rows and 128*112*4 bytes long, whatever the source's size.
C3_AlwaysTargetSize ==
    /\ pc \in {"grayscale", "contrast", "edge", "dither", "done"} => C3_Shape(gray)
    /\ pc = "done" => C3_Shape(result)

\* A call has returned for a source that is neither 128 wide nor 112 high.
C3_Witness ==
    /\ pc = "done"
    /\ source.width # 128
    /\ source.height # 112
    /\ "edge" \in { stagesRun[i] : i \in DOMAIN stagesRun }

\* The stages a call with edge strength e runs, in order.
C4_Order(e) ==
    IF e[1] > 0
    THEN << "palette", "downscale", "grayscale", "contrast", "edge", "dither" >>
    ELSE << "palette", "downscale", "grayscale", "contrast", "dither" >>

\* Every pixel of the buffer has R = G = B.
C4_AllGray(img) ==
    \A p \in Pixels(img) :
        LET px == PixelAt(img, p[1], p[2]) IN px[1] = px[2] /\ px[2] = px[3]

\* C4: the stages a call has run are an initial part of palette, downscale,
\* grayscale, contrast, edge (only when edgeStrength > 0), dither; no stage
\* runs twice; the call returns when all of them have run; and a stage finds
\* the buffer as the stage before it left it, every pixel visited (gray
\* everywhere once the grayscale has run, opaque everywhere once the dither has).
C4_StrictStageOrder ==
    /\ pc \notin {"idle", "threw"} =>
          /\ Len(stagesRun) <= Len(C4_Order(edgeStrength))
          /\ stagesRun = SubSeq(C4_Order(edgeStrength), 1, Len(stagesRun))
          /\ pc = IF Len(stagesRun) = Len(C4_Order(edgeStrength)) THEN "done"
                  ELSE C4_Order(edgeStrength)[Len(stagesRun) + 1]
    /\ \A i, j \in DOMAIN stagesRun : stagesRun[i] = stagesRun[j] => i = j
    /\ pc \in {"contrast", "edge", "dither"} => C4_AllGray(gray)
    /\ pc = "done" =>
          \A p \in Pixels(result) : PixelAt(result, p[1], p[2])[4] = 255

\* A call that ran all six stages has returned.
C4_Witness ==
    /\ pc = "done"
    /\ Len(stagesRun) = 6
    /\ stagesRun[5] = "edge"
    /\ contrast # <<1, 1>>

C6_EdgeDisabled ==
    (pc = "done" /\ edgeStrength[1] <= 0) =>
        /\ \A i \in DOMAIN stagesRun : stagesRun[i] # "edge"
        /\ result = ditherAndColorize(
                        applyContrast(toGrayscale(downscale(source, 128, 112)), contrast),
                        paletteRgb)

\* A call with a negative edge strength has returned, and the enhancer, had it
\* run with that strength, would have given another image.
C6_Witness ==
    /\ pc = "done"
    /\ edgeStrength[1] < 0
    /\ result # ditherAndColorize(
                    edgeEnhance(
                        applyContrast(toGrayscale(downscale(source, 128, 112)), contrast),
                        edgeStrength),
                    paletteRgb)

\* C7: applyContrast with factor 1.0 leaves a gray image as it was: every
\* luminance 0..255 is stored back unchanged in R, G and B, and alpha is not
\* touched.
C7_ContrastIdentity ==
    (fn = "applyContrast" /\ param = <<1, 1>>) =>
        /\ buffer.width = before.width
        /\ buffer.height = before.height
        /\ \A p \in Pixels(before) :
              LET old == PixelAt(before, p[1], p[2])
                  new == PixelAt(buffer, p[1], p[2])
              IN  /\ new[1] = old[1]
                  /\ new[2] = new[1]
                  /\ new[3] = new[1]
                  /\ new[4] = old[4]

\* applyContrast has run with factor 1.0 on a gray image that holds luminance
\* 255, and on pixels whose alpha is not 255.
C7_Witness ==
    /\ fn = "applyContrast"
    /\ param = <<1, 1>>
    /\ \E p \in Pixels(before) : PixelAt(before, p[1], p[2])[1] = 255
    /\ \E p \in Pixels(before) : PixelAt(before, p[1], p[2])[4] # 255
    /\ C4_AllGray(before)

C9_MidGrayBayer ==
    (pc = "done" /\ paletteKey = "classic" /\ contrast = <<1, 1>>
        /\ edgeStrength = <<0, 1>> /\ source = MidGrayImage) =>
        \A p \in Pixels(result) :
            LET c == Rgb(PixelAt(result, p[1], p[2]))
            IN  /\ c \in { <<48, 98, 48>>, <<139, 172, 15>> }
                /\ c \notin { <<15, 56, 15>>, <<155, 188, 15>> }
                /\ c = Rgb(PixelAt(result, p[1] % 4, p[2] % 4))
                /\ (c = <<139, 172, 15>>) <=>
                       (BAYER_4x4[(p[2] % 4) + 1][(p[1] % 4) + 1] >= 8)

\* The scenario's call has returned a 128 x 112 image that shows both colours.
C9_Witness ==
    /\ pc = "done"
    /\ paletteKey = "classic"
    /\ contrast = <<1, 1>>
    /\ edgeStrength = <<0, 1>>
    /\ source = MidGrayImage
    /\ source.width = 128 /\ source.height = 112
    /\ Colours(result) = { <<48, 98, 48>>, <<139, 172, 15>> }

\* C10: the stored list never holds more than 30 photos, and a savePhoto that
\* found exactly 30 has put the new photo first and dropped exactly the last.
C10_AtMostThirty ==
    /\ Len(getPhotos(item)) <= 30
    /\ (lastOp.op = "save" /\ Len(lastOp.found) = 30) =>
          /\ Len(item.photos) = 30
          /\ item.photos[1].id = lastOp.id
          /\ \A i \in 1..29 : item.photos[i + 1] = lastOp.found[i]
          /\ \A i \in 1..30 : item.photos[i] # lastOp.found[30]

\* A savePhoto has found 30 photos, after an earlier delete and save.
C10_Witness ==
    /\ lastOp.op = "save"
    /\ Len(lastOp.found) = 30
    /\ galleryOps >= 3
    /\ \E i \in 1..30 : lastOp.found[i].palette = "noir"

\* The R, G and B bytes of every pixel of the buffer lie in 0..255.
C11_InByteRange(img) ==
    \A p \in Pixels(img) :
        \A k \in 1..3 : PixelAt(img, p[1], p[2])[k] \in 0..255

\* C11: a call with a registered palette key throws nothing, whatever its
\* contrast and edge strength, in or out of the sliders' ranges; and what
\* applyContrast and edgeEnhance have stored is in 0..255 at every pixel.
C11_NeverRejected ==
    /\ (pc # "idle" /\ paletteKey \in DOMAIN PALETTES) =>
          (pc # "threw" /\ thrown = "none")
    /\ pc \in {"edge", "dither"} => C11_InByteRange(gray)
    /\ pc = "done" => C11_InByteRange(result)

\* A call with contrast above 2.5 and edge strength above 1 has run the
\* enhancer and left pixels at both ends of the byte range.
C11_Witness ==
    /\ pc = "dither"
    /\ contrast[1] * 2 > 5 * contrast[2]
    /\ edgeStrength[1] > edgeStrength[2]
    /\ stagesRun[Len(stagesRun)] = "edge"
    /\ \E p \in Pixels(gray) : PixelAt(gray, p[1], p[2])[1] = 0
    /\ \E p \in Pixels(gray) : PixelAt(gray, p[1], p[2])[1] = 255

\* b is the claim's value for the interior pixel (x, y) of the pre-stage
\* image o under strength s = s[1]/s[2], as a byte holds it: an integer of
\* 0..255 nearest to clamp(o(x,y)*(1 - s) + S*s, 0, 255), with
\* S = 5*o(x,y) - o(x,y-1) - o(x,y+1) - o(x-1,y) - o(x+1,y).
C12_Value(b, o, x, y, s) ==
    LET c  == PixelAt(o, x, y)[1]
        S  == 5 * c - PixelAt(o, x, y - 1)[1] - PixelAt(o, x, y + 1)[1]
                    - PixelAt(o, x - 1, y)[1] - PixelAt(o, x + 1, y)[1]
        n  == c * (s[2] - s[1]) + S * s[1]
        lo == IF n < 0 THEN 0 ELSE n
        cl == IF lo > 255 * s[2] THEN 255 * s[2] ELSE lo
    IN  /\ b \in 0..255
        /\ 2 * (b * s[2] - cl) <= s[2]
        /\ 2 * (cl - b * s[2]) <= s[2]

\* C12: while and after edgeEnhance runs, every interior pixel it has visited
\* holds the claim's value computed from the image as it was on entry, whatever
\* pixels were visited before it; and when all are visited the buffer is the
\* same in every order of visits (it is edgeEnhance of the entry image).
C12_ReadsSnapshot ==
    fn = "edgeEnhance" =>
        /\ \A p \in visited :
              LET px == PixelAt(buffer, p[1], p[2])
              IN  /\ C12_Value(px[1], before, p[1], p[2], param)
                  /\ px[2] = px[1] /\ px[3] = px[1]
        /\ \A p \in Interior(before) \ visited :
              PixelAt(buffer, p[1], p[2]) = PixelAt(before, p[1], p[2])
        /\ visited = Interior(before) => buffer = edgeEnhance(before, param)

\* The loop has visited all six interior pixels of an image and has changed
\* the neighbouring pixels (1, 1), (2, 1) and (1, 2).
C12_Witness ==
    /\ fn = "edgeEnhance"
    /\ Cardinality(visited) = 6
    /\ visited = Interior(before)
    /\ PixelAt(buffer, 1, 1) # PixelAt(before, 1, 1)
    /\ PixelAt(buffer, 2, 1) # PixelAt(before, 2, 1)
    /\ PixelAt(buffer, 1, 2) # PixelAt(before, 1, 2)

\* Between the images old and new: the size is the same, every border pixel
\* and every alpha byte is the same, and with W < 3 or H < 3 all is the same.
C13_Untouched(old, new) ==
    /\ new.width = old.width
    /\ new.height = old.height
    /\ \A p \in Pixels(old) :
          /\ (p[1] = 0 \/ p[1] = old.width - 1 \/ p[2] = 0 \/ p[2] = old.height - 1)
                => PixelAt(new, p[1], p[2]) = PixelAt(old, p[1], p[2])
          /\ PixelAt(new, p[1], p[2])[4] = PixelAt(old, p[1], p[2])[4]
    /\ (old.width < 3 \/ old.height < 3) => new = old

\* C13: edgeEnhance, at every point of its loop and as a whole, leaves every
\* border pixel and every alpha byte as on entry, and changes nothing in an
\* image with W < 3 or H < 3.
C13_BorderAndAlphaKept ==
    fn = "edgeEnhance" =>
        /\ C13_Untouched(before, buffer)
        /\ C13_Untouched(before, edgeEnhance(before, param))

\* The loop is through with an image whose interior it changed and in which
\* a visited pixel and a border pixel have alpha below 255.
C13_Witness ==
    /\ fn = "edgeEnhance"
    /\ visited = Interior(before)
    /\ \E p \in visited :
          /\ PixelAt(buffer, p[1], p[2]) # PixelAt(before, p[1], p[2])
          /\ PixelAt(before, p[1], p[2])[4] < 255
    /\ PixelAt(before, 0, 0)[4] < 255 \/ PixelAt(before, 1, 0)[4] < 255

\* The level the claim gives luminance v under the threshold b/16:
\* d = v/255 + (b/16 - 0.5)*0.33, compared with 0.25, 0.5 and 0.75 (all
\* scaled by 255 * 3200), d itself not clamped.
C14_Level(v, b) ==
    LET d == 3200 * v + 255 * 33 * (2 * b - 16)
    IN  IF d < 255 * 800 THEN 0
        ELSE IF d < 255 * 1600 THEN 1
        ELSE IF d < 255 * 2400 THEN 2
        ELSE 3

\* C14: after ditherAndColorize every pixel holds, opaque, the palette colour
\* of the level the formula gives its luminance at its place, once (a second
\* visit would have quantized the colour written); the matrix holds the 16
\* values 0/16 .. 15/16, each once; and at each place one more unit of
\* luminance gives the same or a higher level.
C14_DitherLevels ==
    fn = "ditherAndColorize" =>
        /\ { BAYER_4x4[i][j] : i, j \in 1..4 } = 0..15
        /\ BayerDen = 16
        /\ buffer.width = before.width /\ buffer.height = before.height
        /\ \A p \in Pixels(before) :
              LET v == PixelAt(before, p[1], p[2])[1]
                  b == BAYER_4x4[(p[2] % 4) + 1][(p[1] % 4) + 1]
                  c == param[C14_Level(v, b) + 1]
              IN  /\ PixelAt(buffer, p[1], p[2]) = << c[1], c[2], c[3], 255 >>
                  /\ v < 255 => C14_Level(v, b) <= C14_Level(v + 1, b)
                  /\ v < 255 => Shade(v, p[1], p[2]) <= Shade(v + 1, p[1], p[2])

\* ditherAndColorize has run on an image of one luminance and alpha below 255
\* in places, and has spread it over three levels.
C14_Witness ==
    /\ fn = "ditherAndColorize"
    /\ Cardinality(Colours(buffer)) = 3
    /\ \E p \in Pixels(before) : PixelAt(before, p[1], p[2])[4] < 255
    /\ PixelAt(buffer, 4, 4) = PixelAt(buffer, 0, 0)

\* C15 (as the claim states it): every media stream that has been obtained
\* and whose tracks are not stopped is the one this.stream refers to, so at
\* most one stream is live (and a stop() ends all that are).
C15_NoStreamLeak ==
    /\ live \subseteq { stream }
    /\ Cardinality(live) <= 1

====
